---- MODULE Spec2Model ----
(***************************************************************************)
(* The animation package decoder of tools/parse_anim_dat.py (parse_dat)    *)
(* as a state machine: one action per read of the cursor walk              *)
(* animations -> frames -> layers, the byte buffer and the package         *)
(* identifier being the inputs.                                            *)
(***************************************************************************)
EXTENDS Integers, Sequences, FiniteSets, TLC

VARIABLES
    data,            \* the bytes of the file (line 25), a sequence of 0..255
    package_id,      \* the caller's package identifier
    src,             \* ghost: the animations the buffer was laid out from
    phase,           \* ghost: "full" (first call) or "truncated" (second call)
    pc,              \* position in parse_dat
    exc,             \* the exception that ended the call, or "none"
    offset,          \* line 27
    result,          \* line 28: the dict that is returned
    num_animations,  \* line 41
    max_sprite_idx,  \* line 46
    anim_id,         \* line 48
    anim,            \* line 49
    num_frames,      \* line 54
    frame_id,        \* line 57
    frame,           \* line 58
    num_layers,      \* line 69
    layer_id,        \* line 72
    rect_x,          \* line 74
    rect_y,          \* line 76
    rect_w,          \* line 78
    rect_h,          \* line 80
    lastRead,        \* ghost: the last read attempted
    report           \* line 112: what is printed as bytes read and file size

vars == <<data, package_id, src, phase, pc, exc, offset, result, num_animations,
          max_sprite_idx, anim_id, anim, num_frames, frame_id, frame,
          num_layers, layer_id, rect_x, rect_y, rect_w, rect_h, lastRead,
          report>>

\* Bounds of the inputs: animation blocks in a buffer, frames in a buffer,
\* layers in a buffer.
MaxAnims == 2
MaxFrames == 2
MaxLayers == 2

----------------------------------------------------------------------------
(* Arithmetic on bit vectors: a word is a sequence of 0/1, least            *)
(* significant bit first. A 32-bit value does not fit TLC's integers, so    *)
(* the packed field is kept as a word of 32 bits.                           *)

\* The w low bits of the number n
RECURSIVE Bits(_, _)
Bits(n, w) == IF w = 0 THEN <<>> ELSE <<n % 2>> \o Bits(n \div 2, w - 1)

RECURSIVE Val(_)
Val(x) == IF x = <<>> THEN 0 ELSE x[1] + 2 * Val(Tail(x))

\* x >> k
Shr(x, k) == [i \in 1..Len(x) |-> IF i + k <= Len(x) THEN x[i + k] ELSE 0]

\* x & m, m a number
BitAnd(x, m) == LET mb == Bits(m, Len(x)) IN [i \in 1..Len(x) |-> x[i] * mb[i]]

Min(a, b) == IF a < b THEN a ELSE b

----------------------------------------------------------------------------
(* Python's bytes and struct.                                               *)

\* Faulty variant: the slice taken one byte short, data[a:b-1]
SliceShort(d, a, b) == SubSeq(d, a + 1, Min(b - 1, Len(d)))

\* data[a:b]: a slice is clamped to the buffer, it never raises
Slice(d, a, b) == SubSeq(d, a + 1, Min(b, Len(d)))

\* data[i] raises IndexError unless 0 <= i < len(data)
IndexOk(d, i) == i >= 0 /\ i < Len(d)

\* struct.unpack(fmt, s) raises struct.error unless len(s) is the size of fmt
CalcSize(fmt) == CASE fmt = ">H" -> 2 [] fmt = ">I" -> 4 [] fmt = "b" -> 1

StructOk(fmt, s) == Len(s) = CalcSize(fmt)

\* struct.unpack('>H', s)[0]
UnpackBEShort(s) == s[1] * 256 + s[2]

\* struct.unpack('>I', s)[0], as a word
UnpackBEInt(s) == Bits(s[4], 8) \o Bits(s[3], 8) \o Bits(s[2], 8) \o Bits(s[1], 8)

\* struct.unpack('b', s)[0]
UnpackSignedByte(s) == IF s[1] >= 128 THEN s[1] - 256 ELSE s[1]

\* hex(n) of a word: "0x", then the digits without leading zeros
HexChars == <<"0", "1", "2", "3", "4", "5", "6", "7",
              "8", "9", "a", "b", "c", "d", "e", "f">>

RECURSIVE HexDigits(_)
HexDigits(x) ==
    IF \A i \in 1..Len(x) : x[i] = 0 THEN <<>>
    ELSE HexDigits(SubSeq(x, 5, Len(x))) \o <<HexChars[Val(SubSeq(x, 1, 4)) + 1]>>

Hex(x) == <<"0", "x">> \o (IF HexDigits(x) = <<>> THEN <<"0">> ELSE HexDigits(x))

----------------------------------------------------------------------------
(* The bit fields of the packed value, lines 88-91.                         *)

SpriteIndex(packed) == Val(BitAnd(Shr(packed, 23), 511))

\* Faulty variant: the 10-bit mask forgotten
XOffsetNoMask(packed) == Val(Shr(packed, 13)) - 512

XOffset(packed) == Val(BitAnd(Shr(packed, 13), 1023)) - 512

YOffset(packed) == Val(BitAnd(Shr(packed, 3), 1023)) - 512

\* Faulty variant: a 2-bit mask
TransformMask3(packed) == Val(BitAnd(packed, 3))

Transform(packed) == Val(BitAnd(packed, 7))

\* Faulty variant: the last sprite index kept, not the largest
UpdateMaxLast(cur, sprite_index) == sprite_index

\* lines 93-94
UpdateMax(cur, sprite_index) == IF sprite_index > cur THEN sprite_index ELSE cur

\* Faulty variant: the loop stops one round early
RangeHasOffByOne(i, n) == i + 1 < n

\* for i in range(n): whether the loop has another round at i
RangeHas(i, n) == i < n

\* Faulty variant: the leading byte read for every package
AlwaysNumPackages(pid) == pid >= 0

\* line 34
HasNumPackages(pid) == pid = 0

\* Faulty variant: every read advances the cursor as a short does
AdvanceTwo(off, n) == off + 2

\* Faulty variant: the cursor advanced one byte too far
AdvanceExtra(off, n) == off + n + 1

\* offset += n
Advance(off, n) == off + n

----------------------------------------------------------------------------
(* The inputs: buffers laid out from animations of bounded shape, with a    *)
(* declared animation count that matches the blocks that follow, falls      *)
(* short of them (trailing bytes) or exceeds them, and buffers of one       *)
(* layer whose packed bytes take the boundary values of every bit field.    *)

LayerRecs == << <<1, 2, 0, 20, 0, 30, 0, 40, 0, 128, 0, 0>>,
                <<255, 255, 255, 255, 255, 255, 255, 255, 255, 255, 255, 255>>,
                <<0, 10, 2, 1, 0, 30, 128, 0, 18, 52, 86, 120>>,
                <<0, 0, 0, 0, 0, 0, 0, 0, 0, 0, 0, 0>> >>

DelayBytes == <<251, 0, 127, 128>>

Seeds == {0, 1}

PackageIds == {0, 7}

NumPackagesBytes == <<1, 255>>

PackedBytes == {<<a, b, c, d>> : a \in {0, 128, 255}, b \in {0, 127, 128, 255},
                                 c \in {0, 31, 224, 255}, d \in {0, 7, 248, 255}}

RECURSIVE Sum(_)
Sum(s) == IF s = <<>> THEN 0 ELSE s[1] + Sum(Tail(s))

RECURSIVE Flatten(_)
Flatten(ss) == IF ss = <<>> THEN <<>> ELSE ss[1] \o Flatten(Tail(ss))

\* An animation's shape is the layer count of each of its frames.
AnimShapes ==
    {a \in UNION {[1..n -> 0..MaxLayers] : n \in 0..MaxFrames} : Sum(a) <= MaxLayers}

PkgShapes ==
    {s \in UNION {[1..k -> AnimShapes] : k \in 0..MaxAnims} :
        /\ Sum([i \in 1..Len(s) |-> Len(s[i])]) <= MaxFrames
        /\ Sum([i \in 1..Len(s) |-> Sum(s[i])]) <= MaxLayers}

MkSrc(shape, seed) ==
    [i \in 1..Len(shape) |->
        [j \in 1..Len(shape[i]) |->
            [delay  |-> DelayBytes[((seed + i + j) % Len(DelayBytes)) + 1],
             layers |-> [l \in 1..shape[i][j] |->
                            LayerRecs[((seed + i + j + l) % Len(LayerRecs)) + 1]]]]]

EncFrame(f) == <<f.delay, Len(f.layers)>> \o Flatten(f.layers)

EncAnim(a) == <<Len(a)>> \o Flatten([j \in 1..Len(a) |-> EncFrame(a[j])])

EncBody(s) == Flatten([i \in 1..Len(s) |-> EncAnim(s[i])])

Header(pid, seed) == IF pid = 0 THEN <<NumPackagesBytes[(seed % 2) + 1]>> ELSE <<>>

Declared(k) == {k, k + 1, 256 + k} \cup (IF k > 0 THEN {k - 1} ELSE {})

EncCount(n) == <<n \div 256, n % 256>>

NoRead == [at |-> 0, want |-> 0, got |-> 0, field |-> "none"]

\* The state at the entry of parse_dat(filepath, package_id), lines 24-31.
Enter(d, pid) ==
    /\ data = d
    /\ package_id = pid
    /\ pc = "header"
    /\ exc = "none"
    /\ offset = 0
    /\ result = [package_id |-> pid, animations |-> <<>>]
    /\ num_animations = 0
    /\ max_sprite_idx = 0
    /\ anim_id = 0
    /\ anim = [id |-> 0, frames |-> <<>>]
    /\ num_frames = 0
    /\ frame_id = 0
    /\ frame = [id |-> 0, layers |-> <<>>]
    /\ num_layers = 0
    /\ layer_id = 0
    /\ rect_x = 0
    /\ rect_y = 0
    /\ rect_w = 0
    /\ rect_h = 0
    /\ lastRead = NoRead
    /\ report = <<>>

InitWalk ==
    \E shape \in PkgShapes, seed \in Seeds, pid \in PackageIds :
        \E n \in Declared(Len(shape)) :
            /\ src = MkSrc(shape, seed)
            /\ phase = "full"
            /\ Enter(Header(pid, seed) \o EncCount(n) \o EncBody(src), pid)

InitPacked ==
    \E p \in PackedBytes :
        /\ src = << << [delay |-> 251,
                        layers |-> << <<10, 0, 20, 0, 30, 0, 40, 0>> \o p >>] >> >>
        /\ phase = "full"
        /\ Enter(EncCount(1) \o EncBody(src), 7)

Init == InitWalk \/ InitPacked

----------------------------------------------------------------------------
(* parse_dat, one action per read.                                          *)

locals == <<num_animations, max_sprite_idx, anim_id, anim, num_frames, frame_id,
            frame, num_layers, layer_id, rect_x, rect_y, rect_w, rect_h>>

\* Faulty variant: the exception swallowed and the partial result returned
RaiseSwallowed(kind) ==
    /\ pc' = "done"
    /\ exc' = "none"
    /\ UNCHANGED <<data, package_id, src, phase, offset, result, locals, report>>

\* An exception leaves parse_dat: nothing is returned, nothing is printed.
Raise(kind) ==
    /\ pc' = "raised"
    /\ exc' = kind
    /\ UNCHANGED <<data, package_id, src, phase, offset, result, locals, report>>

\* data[offset], line 35, 54, 69
IndexRead(field) ==
    [at |-> offset, want |-> 1, got |-> IF IndexOk(data, offset) THEN 1 ELSE 0,
     field |-> field]

\* struct.unpack(fmt, data[offset:offset+n]), lines 41, 64, 74-84
StructRead(field, n) ==
    [at |-> offset, want |-> n, got |-> Len(Slice(data, offset, offset + n)),
     field |-> field]

\* lines 34-38
ReadNumPackages ==
    /\ pc = "header"
    /\ HasNumPackages(package_id)
    /\ lastRead' = IndexRead("num_packages")
    /\ IF IndexOk(data, offset)
       THEN /\ result' = result @@ ("num_packages" :> data[offset + 1])
            /\ offset' = Advance(offset, 1)
            /\ pc' = "num_animations"
            /\ UNCHANGED <<data, package_id, src, phase, exc, locals, report>>
       ELSE Raise("IndexError")

\* lines 41-46
ReadNumAnimations ==
    /\ \/ pc = "num_animations"
       \/ pc = "header" /\ ~HasNumPackages(package_id)
    /\ lastRead' = StructRead("num_animations", 2)
    /\ LET s == Slice(data, offset, offset + 2) IN
       IF StructOk(">H", s)
       THEN /\ num_animations' = UnpackBEShort(s)
            /\ offset' = Advance(offset, 2)
            /\ result' = result @@ ("num_animations" :> UnpackBEShort(s))
            /\ max_sprite_idx' = 0
            /\ anim_id' = 0
            /\ pc' = "anim_loop"
            /\ UNCHANGED <<data, package_id, src, phase, exc, anim, num_frames,
                           frame_id, frame, num_layers, layer_id, rect_x, rect_y,
                           rect_w, rect_h, report>>
       ELSE Raise("struct.error")

\* lines 48-55
ReadNumFrames ==
    /\ pc = "anim_loop"
    /\ RangeHas(anim_id, num_animations)
    /\ lastRead' = IndexRead("num_frames")
    /\ IF IndexOk(data, offset)
       THEN /\ anim' = [id |-> anim_id, frames |-> <<>>]
            /\ num_frames' = data[offset + 1]
            /\ offset' = Advance(offset, 1)
            /\ frame_id' = 0
            /\ pc' = "frame_loop"
            /\ UNCHANGED <<data, package_id, src, phase, exc, result,
                           num_animations, max_sprite_idx, anim_id, frame,
                           num_layers, layer_id, rect_x, rect_y, rect_w, rect_h,
                           report>>
       ELSE Raise("IndexError")

\* lines 57-66
ReadDelay ==
    /\ pc = "frame_loop"
    /\ RangeHas(frame_id, num_frames)
    /\ lastRead' = StructRead("delay", 1)
    /\ LET s == Slice(data, offset, offset + 1) IN
       IF StructOk("b", s)
       THEN /\ frame' = [id |-> frame_id, layers |-> <<>>, delay |-> UnpackSignedByte(s)]
            /\ offset' = Advance(offset, 1)
            /\ pc' = "num_layers"
            /\ UNCHANGED <<data, package_id, src, phase, exc, result,
                           num_animations, max_sprite_idx, anim_id, anim,
                           num_frames, frame_id, num_layers, layer_id, rect_x,
                           rect_y, rect_w, rect_h, report>>
       ELSE Raise("struct.error")

\* lines 69-70
ReadNumLayers ==
    /\ pc = "num_layers"
    /\ lastRead' = IndexRead("num_layers")
    /\ IF IndexOk(data, offset)
       THEN /\ num_layers' = data[offset + 1]
            /\ offset' = Advance(offset, 1)
            /\ layer_id' = 0
            /\ pc' = "layer_loop"
            /\ UNCHANGED <<data, package_id, src, phase, exc, result,
                           num_animations, max_sprite_idx, anim_id, anim,
                           num_frames, frame_id, frame, rect_x, rect_y, rect_w,
                           rect_h, report>>
       ELSE Raise("IndexError")

\* One rect field, lines 74-81: struct.unpack('>H', ...) and offset += 2
ReadRect(at, next, field) ==
    /\ pc = at
    /\ lastRead' = StructRead(field, 2)
    /\ LET s == Slice(data, offset, offset + 2) IN
       IF StructOk(">H", s)
       THEN /\ rect_x' = IF field = "rect_x" THEN UnpackBEShort(s) ELSE rect_x
            /\ rect_y' = IF field = "rect_y" THEN UnpackBEShort(s) ELSE rect_y
            /\ rect_w' = IF field = "rect_w" THEN UnpackBEShort(s) ELSE rect_w
            /\ rect_h' = IF field = "rect_h" THEN UnpackBEShort(s) ELSE rect_h
            /\ offset' = Advance(offset, 2)
            /\ pc' = next
            /\ UNCHANGED <<data, package_id, src, phase, exc, result,
                           num_animations, max_sprite_idx, anim_id, anim,
                           num_frames, frame_id, frame, num_layers, layer_id,
                           report>>
       ELSE Raise("struct.error")

\* lines 72-75
ReadRectX ==
    /\ RangeHas(layer_id, num_layers)
    /\ ReadRect("layer_loop", "rect_y", "rect_x")

\* lines 76-77
ReadRectY == ReadRect("rect_y", "rect_w", "rect_y")

\* lines 78-79
ReadRectW == ReadRect("rect_w", "rect_h", "rect_w")

\* lines 80-81
ReadRectH == ReadRect("rect_h", "packed", "rect_h")

\* lines 96-103
Layer(packed) ==
    [rect         |-> [x |-> rect_x, y |-> rect_y, w |-> rect_w, h |-> rect_h],
     sprite_index |-> SpriteIndex(packed),
     x_offset     |-> XOffset(packed),
     y_offset     |-> YOffset(packed),
     transform    |-> Transform(packed),
     packed_raw   |-> Hex(packed)]

\* lines 83-104
ReadPacked ==
    /\ pc = "packed"
    /\ lastRead' = StructRead("packed", 4)
    /\ LET s == Slice(data, offset, offset + 4) IN
       IF StructOk(">I", s)
       THEN /\ offset' = Advance(offset, 4)
            /\ LET layer == Layer(UnpackBEInt(s)) IN
                /\ max_sprite_idx' = UpdateMax(max_sprite_idx, layer.sprite_index)
                /\ frame' = [frame EXCEPT !.layers = Append(@, layer)]
            /\ layer_id' = layer_id + 1
            /\ pc' = "layer_loop"
            /\ UNCHANGED <<data, package_id, src, phase, exc, result,
                           num_animations, anim_id, anim, num_frames, frame_id,
                           num_layers, rect_x, rect_y, rect_w, rect_h, report>>
       ELSE Raise("struct.error")

\* line 106, the layer loop being over
AppendFrame ==
    /\ pc = "layer_loop"
    /\ ~RangeHas(layer_id, num_layers)
    /\ anim' = [anim EXCEPT !.frames = Append(@, frame)]
    /\ frame_id' = frame_id + 1
    /\ pc' = "frame_loop"
    /\ UNCHANGED <<data, package_id, src, phase, exc, offset, result,
                   num_animations, max_sprite_idx, anim_id, num_frames, frame,
                   num_layers, layer_id, rect_x, rect_y, rect_w, rect_h,
                   lastRead, report>>

\* line 108, the frame loop being over
AppendAnim ==
    /\ pc = "frame_loop"
    /\ ~RangeHas(frame_id, num_frames)
    /\ result' = [result EXCEPT !.animations = Append(@, anim)]
    /\ anim_id' = anim_id + 1
    /\ pc' = "anim_loop"
    /\ UNCHANGED <<data, package_id, src, phase, exc, offset, num_animations,
                   max_sprite_idx, anim, num_frames, frame_id, frame,
                   num_layers, layer_id, rect_x, rect_y, rect_w, rect_h,
                   lastRead, report>>

\* lines 110-114, the animation loop being over
Return ==
    /\ pc = "anim_loop"
    /\ ~RangeHas(anim_id, num_animations)
    /\ result' = result @@ ("max_sprite_index" :> max_sprite_idx)
    /\ report' = Append(report, [bytes_read |-> offset, file_size |-> Len(data)])
    /\ pc' = "done"
    /\ UNCHANGED <<data, package_id, src, phase, exc, offset, locals, lastRead>>

\* main, lines 122-126, run again on a file that holds a proper prefix of a
\* file that parse_dat has just read to its last byte.
ParseTruncated ==
    /\ phase = "full"
    /\ pc = "done"
    /\ offset = Len(data)
    /\ \E n \in 0..(Len(data) - 1) :
        /\ data' = SubSeq(data, 1, n)
        /\ package_id' = package_id
        /\ pc' = "header"
        /\ exc' = "none"
        /\ offset' = 0
        /\ result' = [package_id |-> package_id, animations |-> <<>>]
        /\ num_animations' = 0
        /\ max_sprite_idx' = 0
        /\ anim_id' = 0
        /\ anim' = [id |-> 0, frames |-> <<>>]
        /\ num_frames' = 0
        /\ frame_id' = 0
        /\ frame' = [id |-> 0, layers |-> <<>>]
        /\ num_layers' = 0
        /\ layer_id' = 0
        /\ rect_x' = 0
        /\ rect_y' = 0
        /\ rect_w' = 0
        /\ rect_h' = 0
        /\ lastRead' = NoRead
        /\ report' = <<>>
    /\ phase' = "truncated"
    /\ UNCHANGED src

Next ==
    \/ ReadNumPackages
    \/ ReadNumAnimations
    \/ ReadNumFrames
    \/ ReadDelay
    \/ ReadNumLayers
    \/ ReadRectX
    \/ ReadRectY
    \/ ReadRectW
    \/ ReadRectH
    \/ ReadPacked
    \/ AppendFrame
    \/ AppendAnim
    \/ Return
    \/ ParseTruncated

Spec == Init /\ [][Next]_vars

----------------------------------------------------------------------------
(* What the claims are stated over.                                         *)

\* The bytes the header takes before num_animations
HeaderLen == IF package_id = 0 THEN 1 ELSE 0

\* The two bytes after the header, read big-endian
DeclaredCount == 256 * data[HeaderLen + 1] + data[HeaderLen + 2]

\* A pair of bytes read little-endian
LittleEndian(b, i) == b[i] + 256 * b[i + 1]

\* pc between ReadNumFrames and AppendAnim: anim is the animation being read
InAnim == pc \in {"frame_loop", "num_layers", "layer_loop", "rect_y", "rect_w",
                  "rect_h", "packed"}

\* pc between ReadDelay and AppendFrame: frame is the frame being read
InFrame == pc \in {"num_layers", "layer_loop", "rect_y", "rect_w", "rect_h", "packed"}

\* Every layer decoded so far, with its place (animation, frame, layer; from 1)
Decoded ==
    UNION {UNION {{[a |-> i, f |-> j, l |-> k,
                    layer |-> result.animations[i].frames[j].layers[k]] :
                        k \in 1..Len(result.animations[i].frames[j].layers)} :
                    j \in 1..Len(result.animations[i].frames)} :
            i \in 1..Len(result.animations)}
    \cup
    (IF InAnim
     THEN UNION {{[a |-> anim.id + 1, f |-> j, l |-> k,
                   layer |-> anim.frames[j].layers[k]] :
                        k \in 1..Len(anim.frames[j].layers)} :
                    j \in 1..Len(anim.frames)}
     ELSE {})
    \cup
    (IF InFrame
     THEN {[a |-> anim.id + 1, f |-> frame.id + 1, l |-> k,
            layer |-> frame.layers[k]] : k \in 1..Len(frame.layers)}
     ELSE {})

\* The 12 bytes a decoded layer was read from
SrcRec(e) == src[e.a][e.f].layers[e.l]

\* The packed bytes of a decoded layer, as the 32-bit word they spell big-endian
SrcPacked(e) == UnpackBEInt(SubSeq(SrcRec(e), 9, 12))

SetMax(S) == IF S = {} THEN 0 ELSE CHOOSE m \in S : \A x \in S : x <= m

HexDigitVal(c) == CHOOSE d \in 0..15 : HexChars[d + 1] = c

RECURSIVE HexWord(_)
HexWord(ds) ==
    IF ds = <<>> THEN <<>>
    ELSE Bits(HexDigitVal(ds[Len(ds)]), 4) \o HexWord(SubSeq(ds, 1, Len(ds) - 1))

\* int(s, 16) of a string "0x..." as a 32-bit word
ParseHex(s) ==
    LET w == HexWord(SubSeq(s, 3, Len(s)))
    IN  w \o [i \in 1..(32 - Len(w)) |-> 0]

\* x << k, within the word
Shl(x, k) == [i \in 1..Len(x) |-> IF i - k >= 1 THEN x[i - k] ELSE 0]

\* x | y
BitOr(x, y) == [i \in 1..Len(x) |-> IF x[i] + y[i] > 0 THEN 1 ELSE 0]

\* (sprite_index << 23) | ((x_offset + 512) << 13) | ((y_offset + 512) << 3) | transform
Repack(layer) ==
    BitOr(BitOr(Shl(Bits(layer.sprite_index, 32), 23),
                Shl(Bits(layer.x_offset + 512, 32), 13)),
          BitOr(Shl(Bits(layer.y_offset + 512, 32), 3),
                Bits(layer.transform, 32)))

\* 1 + the sum over the frames of (2 + 12 * num_layers)
AnimBytes(a) == 1 + Sum([j \in 1..Len(a.frames) |-> 2 + 12 * Len(a.frames[j].layers)])

PackageBytes ==
    HeaderLen + 2 + Sum([i \in 1..Len(result.animations) |-> AnimBytes(result.animations[i])])

----------------------------------------------------------------------------
(* C1: when parse_dat returns, the package has exactly num_animations       *)
(* animations, the count read big-endian from the header; the i-th          *)
(* animation is the i-th one laid out in the buffer, with id i-1 and        *)
(* exactly the frames its num_frames byte declares; its j-th frame is the   *)
(* j-th one laid out, with id j-1, that frame's delay and exactly the       *)
(* layers its num_layers byte declares, each the layer at that place.       *)
C1_ExactCounts ==
    pc = "done" =>
        /\ result.num_animations = DeclaredCount
        /\ Len(result.animations) = result.num_animations
        /\ \A i \in 1..Len(result.animations) :
            LET a == result.animations[i] IN
            /\ a.id = i - 1
            /\ Len(a.frames) = Len(src[i])
            /\ \A j \in 1..Len(a.frames) :
                LET f == a.frames[j] IN
                /\ f.id = j - 1
                /\ f.delay = UnpackSignedByte(<<src[i][j].delay>>)
                /\ Len(f.layers) = Len(src[i][j].layers)
                /\ \A k \in 1..Len(f.layers) :
                    f.layers[k].packed_raw =
                        Hex(UnpackBEInt(SubSeq(src[i][j].layers[k], 9, 12)))

\* C1 witness: a returned package of two animations with different frame
\* counts, one frame holding a layer.
C1_Witness ==
    /\ pc = "done"
    /\ Len(result.animations) = 2
    /\ Len(result.animations[1].frames) = 0
    /\ Len(result.animations[2].frames) = 2
    /\ Len(result.animations[2].frames[1].layers) = 0
    /\ Len(result.animations[2].frames[2].layers) = 1

(* C2 as claimed: a decode that fails has failed with the error kind        *)
(* OutOfBounds.                                                             *)
C2_OutOfBoundsKind == pc = "raised" => exc = "OutOfBounds"

(* C2 as amended: a read that would consume bytes past the end of the       *)
(* buffer ends parse_dat with Python's own exception, IndexError for the    *)
(* reads data[offset] (num_packages, num_frames, num_layers), struct.error  *)
(* for the struct.unpack reads (num_animations, delay, rect fields,         *)
(* packed), raised at the cursor of that read; a read that fits in the      *)
(* buffer never fails, and no other exception ends the decode.              *)
C2_PlatformException ==
    /\ pc = "raised" =>
        /\ exc \in {"IndexError", "struct.error"}
        /\ exc = "IndexError" <=> lastRead.field \in {"num_packages", "num_frames", "num_layers"}
        /\ lastRead.at = offset
        /\ lastRead.at + lastRead.want > Len(data)
    /\ pc # "raised" =>
        /\ exc = "none"
        /\ lastRead.at + lastRead.want <= Len(data)

\* C2 witnesses: a decode ended by each of the two exceptions.
C2_Witness ==
    /\ pc = "raised"
    /\ exc = "struct.error"
    /\ lastRead.field = "packed"
    /\ lastRead.got = 3

C4_RectLittleEndian ==
    pc # "raised" =>
        \A e \in Decoded :
            /\ e.layer.rect.x = LittleEndian(SrcRec(e), 1)
            /\ e.layer.rect.y = LittleEndian(SrcRec(e), 3)
            /\ e.layer.rect.w = LittleEndian(SrcRec(e), 5)
            /\ e.layer.rect.h = LittleEndian(SrcRec(e), 7)

(* C5: when parse_dat returns, the bytes read it reports are                *)
(* (1 if package_id == 0 else 0) + 2 + the sum over the animations of       *)
(* (1 + the sum over the frames of (2 + 12 * num_layers)), beside the       *)
(* buffer length; they equal the buffer length when the buffer holds the    *)
(* declared animations and nothing more, and are less when bytes follow;    *)
(* trailing bytes never make the decode fail.                               *)
C5_BytesConsumed ==
    /\ pc = "done" =>
        /\ report = <<[bytes_read |-> PackageBytes, file_size |-> Len(data)]>>
        /\ offset = PackageBytes
        /\ DeclaredCount = Len(src) => report[1].bytes_read = Len(data)
        /\ DeclaredCount < Len(src) => report[1].bytes_read < Len(data)
    /\ (phase = "full" /\ Len(data) >= HeaderLen + 2 /\ DeclaredCount <= Len(src)) =>
            pc # "raised"

\* C5 witness: a buffer with trailing bytes decoded, two layers in it.
C5_Witness ==
    /\ pc = "done"
    /\ package_id = 0
    /\ Len(result.animations) = 1
    /\ Len(result.animations[1].frames) = 1
    /\ Len(result.animations[1].frames[1].layers) = 2
    /\ report[1].bytes_read = 30
    /\ report[1].file_size > 30

(* C6: with package_id == 0 the first byte is read as the unsigned          *)
(* num_packages, kept in the result, and the cursor moves to 1; with any    *)
(* other package_id no byte is read for it and the result has no            *)
(* num_packages. Either way the next two bytes are num_animations,          *)
(* big-endian, and the cursor moves on by 2.                                *)
C6_Header ==
    /\ package_id # 0 => "num_packages" \notin DOMAIN result
    /\ (package_id = 0 /\ pc = "num_animations") =>
        /\ offset = 1
        /\ result.num_packages = data[1]
        /\ "num_animations" \notin DOMAIN result
    /\ (package_id = 0 /\ pc = "header") => "num_packages" \notin DOMAIN result
    /\ (pc = "anim_loop" /\ anim_id = 0) =>
        /\ offset = HeaderLen + 2
        /\ num_animations = DeclaredCount
    /\ "num_animations" \in DOMAIN result =>
        /\ result.num_animations = DeclaredCount
        /\ package_id = 0 => result.num_packages = data[1]

\* C6 witnesses: the header read with a num_packages byte of 255 and a
\* count of 256 + 1.
C6_Witness ==
    /\ package_id = 0
    /\ pc = "anim_loop"
    /\ anim_id = 0
    /\ result.num_packages = 255
    /\ result.num_animations = 257
    /\ offset = 3

(* C7: every decoded layer has sprite_index in 0..511, transform in 0..7    *)
(* and x_offset, y_offset in -512..511.                                     *)
C7_FieldRanges ==
    pc # "raised" =>
        \A e \in Decoded :
            /\ e.layer.sprite_index \in 0..511
            /\ e.layer.transform \in 0..7
            /\ e.layer.x_offset \in -512..511
            /\ e.layer.y_offset \in -512..511

\* C7 witness: a layer decoded from the packed bytes ff ff ff ff, every
\* field at its upper end.
C7_Witness ==
    /\ pc # "raised"
    /\ \E e \in Decoded :
        /\ SubSeq(SrcRec(e), 9, 12) = <<255, 255, 255, 255>>
        /\ e.layer.sprite_index = 511
        /\ e.layer.x_offset = 511
        /\ e.layer.y_offset = 511
        /\ e.layer.transform = 7

(* C8: for every decoded layer, packing its fields again as                 *)
(* (sprite_index << 23) | ((x_offset + 512) << 13) | ((y_offset + 512) << 3)*)
(* | transform gives the 32-bit value its four packed bytes spell           *)
(* big-endian, and packed_raw is the hexadecimal text of that value.        *)
C8_RoundTrip ==
    pc # "raised" =>
        \A e \in Decoded :
            /\ Repack(e.layer) = SrcPacked(e)
            /\ SubSeq(e.layer.packed_raw, 1, 2) = <<"0", "x">>
            /\ ParseHex(e.layer.packed_raw) = SrcPacked(e)

\* C8 witness: a layer decoded from the packed bytes 12 34 56 78.
C8_Witness ==
    /\ pc # "raised"
    /\ \E e \in Decoded :
        /\ SubSeq(SrcRec(e), 9, 12) = <<18, 52, 86, 120>>
        /\ e.layer.packed_raw = <<"0", "x", "1", "2", "3", "4", "5", "6", "7", "8">>
        /\ e.layer.sprite_index = 36
        /\ e.layer.transform = 0

(* C9: the cursor stays between 0 and the buffer length, the bytes a read   *)
(* obtains lie inside the buffer, and every step of a decode leaves the     *)
(* cursor where it is or moves it forward by the size of the field just     *)
(* read, 1, 2 or 4 bytes.                                                   *)
C9_CursorInBuffer ==
    /\ offset \in 0..Len(data)
    /\ lastRead.at >= 0
    /\ lastRead.got \in 0..lastRead.want
    /\ lastRead.at + lastRead.got <= Len(data)

C9_CursorStep ==
    phase' = phase =>
        \/ offset' = offset
        \/ /\ lastRead'.at = offset
           /\ lastRead'.got = lastRead'.want
           /\ lastRead'.want \in {1, 2, 4}
           /\ offset' = offset + lastRead'.want

C10_RunningMax ==
    /\ pc # "raised" =>
        max_sprite_idx = SetMax({e.layer.sprite_index : e \in Decoded})
    /\ pc = "done" =>
        result.max_sprite_index = SetMax({e.layer.sprite_index : e \in Decoded})

C10_MaxStep == phase' = phase => max_sprite_idx' >= max_sprite_idx

\* C10: max_sprite_idx is the running maximum in every state and never
\* decreases in a step.
C10_MaxSprite == []C10_RunningMax /\ [][C10_MaxStep]_vars

\* C10 witness: a package returned whose largest sprite_index is not that
\* of its last layer.
C10_Witness ==
    /\ pc = "done"
    /\ result.max_sprite_index = 511
    /\ \E e \in Decoded : e.layer.sprite_index = 36 /\ e.l = 2

====
